---- MODULE Spec2Model ----
(***************************************************************************)
(* Model of bindings/python/src/utils/normalization.rs: the Python-facing  *)
(* wrappers PyPattern, PyRange, PyNormalizedString and                     *)
(* PyNormalizedStringRefMut around the tokenizers NormalizedString.        *)
(*                                                                         *)
(* Text is a sequence of characters; every character has a UTF-8 width,    *)
(* so character positions and byte positions differ.                       *)
(***************************************************************************)
EXTENDS Integers, Sequences, FiniteSets, TLC

(***************************************************************************)
(* Bounds                                                                  *)
(***************************************************************************)
\* longest normalized text a growing operation may produce
MaxLen == 3
\* number of handle objects (the guard's handle plus its clones)
MaxHandles == 2
\* largest endpoint tried for explicit pairs and slice endpoints
MaxIdx == 4

(***************************************************************************)
(* Machine integers: isize / usize of IntBits bits                         *)
(***************************************************************************)
IntBits == 4
USIZE_MOD == 2 ^ IntBits
ISIZE_MAX == 2 ^ (IntBits - 1) - 1
ISIZE_MIN == 0 - 2 ^ (IntBits - 1)
ISize == ISIZE_MIN .. ISIZE_MAX

\* `x as usize` for a signed x: two's complement reinterpretation
AsUsize(x) == x % USIZE_MOD

(***************************************************************************)
(* Characters                                                              *)
(*   "a" "A" " "  one byte each                                            *)
(*   "GA"  precomposed syllable U+AC00, "G" U+1100 and "V" U+1161 its      *)
(*         canonical decomposition; three bytes each.  None of them has a  *)
(*         compatibility mapping of its own.                               *)
(***************************************************************************)
Alphabet == {"a", "A", " ", "GA", "G", "V"}

len_utf8(c) == IF c \in {"GA", "G", "V"} THEN 3 ELSE 1

is_whitespace(c) == c = " "

to_lowercase(c) == IF c = "A" THEN "a" ELSE c

to_uppercase(c) == IF c = "a" THEN "A" ELSE c

\* canonical decomposition of one character
CanonicalDecomp(c) == IF c = "GA" THEN <<"G", "V">> ELSE <<c>>

\* compatibility decomposition of one character
CompatDecomp(c) == CanonicalDecomp(c)

\* canonical composition of a pair, "" when the pair does not compose
ComposePair(c, d) == IF c = "G" /\ d = "V" THEN "GA" ELSE ""

(***************************************************************************)
(* Sequence helpers                                                        *)
(***************************************************************************)
Min(a, b) == IF a < b THEN a ELSE b
Max(a, b) == IF a > b THEN a ELSE b

RECURSIVE ByteLen(_)
ByteLen(s) == IF s = <<>> THEN 0 ELSE len_utf8(Head(s)) + ByteLen(Tail(s))

\* byte offset of character position i (0-based) in s
ByteOffset(s, i) == ByteLen(SubSeq(s, 1, i))

RECURSIVE FlatMap(_, _)
FlatMap(F, s) == IF s = <<>> THEN <<>> ELSE F[Head(s)] \o FlatMap(F, Tail(s))

RECURSIVE SeqsUpTo(_, _)
SeqsUpTo(S, n) ==
    IF n = 0 THEN {<<>>}
    ELSE LET R == SeqsUpTo(S, n - 1)
         IN R \cup {<<c>> \o r : c \in S, r \in {x \in R : Len(x) = n - 1}}

(***************************************************************************)
(* NormalizedString (tk::normalizer): original text, normalized text and   *)
(* one alignment (a byte range <<start, end>> into original) per character *)
(* of the normalized text.                                                 *)
(***************************************************************************)
RECURSIVE IdentityAlignments(_, _)
IdentityAlignments(s, off) ==
    IF s = <<>> THEN <<>>
    ELSE <<<<off, off + len_utf8(Head(s))>>>>
         \o IdentityAlignments(Tail(s), off + len_utf8(Head(s)))

\* NormalizedString::from(s)
NormalizedString_from(s) ==
    [original |-> s, normalized |-> s, alignments |-> IdentityAlignments(s, 0)]

RECURSIVE DecompAlign(_, _, _)
DecompAlign(D, s, al) ==
    IF s = <<>> THEN <<>>
    ELSE [k \in 1 .. Len(D[Head(s)]) |-> Head(al)] \o DecompAlign(D, Tail(s), Tail(al))

\* decomposition by the table D: every character of an expansion inherits
\* the range of the character it came from
Decompose(D, n) ==
    [n EXCEPT !.normalized = FlatMap(D, n.normalized),
              !.alignments = DecompAlign(D, n.normalized, n.alignments)]

RECURSIVE ComposeText(_)
ComposeText(s) ==
    IF Len(s) < 2 THEN s
    ELSE IF ComposePair(s[1], s[2]) # ""
         THEN <<ComposePair(s[1], s[2])>> \o ComposeText(Tail(Tail(s)))
         ELSE <<s[1]>> \o ComposeText(Tail(s))

RECURSIVE ComposeAlign(_, _)
ComposeAlign(s, al) ==
    IF Len(s) < 2 THEN al
    ELSE IF ComposePair(s[1], s[2]) # ""
         THEN <<<<Min(al[1][1], al[2][1]), Max(al[1][2], al[2][2])>>>>
              \o ComposeAlign(Tail(Tail(s)), Tail(Tail(al)))
         ELSE <<al[1]>> \o ComposeAlign(Tail(s), Tail(al))

\* composition: a merged character carries the union of the merged ranges
Compose(n) ==
    [n EXCEPT !.normalized = ComposeText(n.normalized),
              !.alignments = ComposeAlign(n.normalized, n.alignments)]

NS_nfd(n) == Decompose([c \in Alphabet |-> CanonicalDecomp(c)], n)
NS_nfkd(n) == Decompose([c \in Alphabet |-> CompatDecomp(c)], n)
NS_nfc(n) == Compose(NS_nfd(n))
NS_nfkc(n) == Compose(NS_nfkd(n))

NS_lowercase(n) ==
    [n EXCEPT !.normalized = [i \in 1 .. Len(n.normalized) |-> to_lowercase(n.normalized[i])]]

NS_uppercase(n) ==
    [n EXCEPT !.normalized = [i \in 1 .. Len(n.normalized) |-> to_uppercase(n.normalized[i])]]

\* inserted characters get an empty range, placed at the boundary they are
\* inserted at
NS_prepend(n, s) ==
    LET b == IF n.alignments = <<>> THEN 0 ELSE n.alignments[1][1]
    IN [n EXCEPT !.normalized = s \o n.normalized,
                 !.alignments = [k \in 1 .. Len(s) |-> <<b, b>>] \o n.alignments]

NS_append(n, s) ==
    LET e == IF n.alignments = <<>> THEN 0 ELSE n.alignments[Len(n.alignments)][2]
    IN [n EXCEPT !.normalized = n.normalized \o s,
                 !.alignments = n.alignments \o [k \in 1 .. Len(s) |-> <<e, e>>]]

RECURSIVE LeadingWs(_)
LeadingWs(s) ==
    IF s # <<>> /\ is_whitespace(Head(s)) THEN 1 + LeadingWs(Tail(s)) ELSE 0

RECURSIVE TrailingWs(_)
TrailingWs(s) ==
    IF s # <<>> /\ is_whitespace(s[Len(s)])
    THEN 1 + TrailingWs(SubSeq(s, 1, Len(s) - 1)) ELSE 0

\* lrstrip(left, right): pure prefix / suffix truncation
NS_lrstrip(n, left, right) ==
    LET l == IF left THEN LeadingWs(n.normalized) ELSE 0
        r == IF right /\ l < Len(n.normalized) THEN TrailingWs(n.normalized) ELSE 0
        hi == Len(n.normalized) - r
    IN [n EXCEPT !.normalized = SubSeq(n.normalized, l + 1, hi),
                 !.alignments = SubSeq(n.alignments, l + 1, hi)]

NS_lstrip(n) == NS_lrstrip(n, TRUE, FALSE)
NS_rstrip(n) == NS_lrstrip(n, FALSE, TRUE)
NS_strip(n) == NS_lrstrip(n, TRUE, TRUE)

NS_clear(n) == [n EXCEPT !.normalized = <<>>, !.alignments = <<>>]

RECURSIVE KeptPositions(_, _, _)
KeptPositions(s, keep, i) ==
    IF i > Len(s) THEN <<>>
    ELSE (IF keep[s[i]] THEN <<i>> ELSE <<>>) \o KeptPositions(s, keep, i + 1)

\* filter(keep): keep is the predicate as a function of the character
NS_filter(n, keep) ==
    LET ks == KeptPositions(n.normalized, keep, 1)
    IN [n EXCEPT !.normalized = [k \in 1 .. Len(ks) |-> n.normalized[ks[k]]],
                 !.alignments = [k \in 1 .. Len(ks) |-> n.alignments[ks[k]]]]

\* map(f): one character for one character, alignments untouched
NS_map(n, f) ==
    [n EXCEPT !.normalized = [i \in 1 .. Len(n.normalized) |-> f[n.normalized[i]]]]

(***************************************************************************)
(* Pattern (tk::pattern): find_matches returns the ordered byte spans      *)
(* [s, e) of the haystack, each tagged m = TRUE for a match.               *)
(***************************************************************************)
Span(s, e, m) == [s |-> s, e |-> e, m |-> m]

\* impl Pattern for &Regex: the matches found from character position i
\* on, non-overlapping and left to right; MatchLen(i) is the length in
\* characters of the match starting at i (0: none) and `last` the byte
\* offset where the previous match ended
RECURSIVE Scan(_, _, _, _)
Scan(MatchLen, inside, i, last) ==
    IF i > Len(inside)
    THEN IF last < ByteLen(inside) THEN <<Span(last, ByteLen(inside), FALSE)>> ELSE <<>>
    ELSE LET b == ByteOffset(inside, i - 1)
             k == MatchLen[i]
             e == ByteOffset(inside, i - 1 + k)
         IN IF k > 0
            THEN (IF last < b THEN <<Span(last, b, FALSE)>> ELSE <<>>)
                 \o <<Span(b, e, TRUE)>> \o Scan(MatchLen, inside, i + k, e)
            ELSE Scan(MatchLen, inside, i + 1, last)

\* impl Pattern for char (through Fn(char) -> bool): walk char_indices;
\* a matching character closes the pending non-match span and is a match
\* span of its own; what is left after the last match is a final span
RECURSIVE CharWalk(_, _, _, _)
CharWalk(c, inside, i, last_offset) ==
    IF i > Len(inside)
    THEN IF ByteLen(inside) > last_offset
         THEN <<Span(last_offset, ByteLen(inside), FALSE)>> ELSE <<>>
    ELSE LET b == ByteOffset(inside, i - 1)
             w == len_utf8(inside[i])
         IN IF inside[i] = c
            THEN (IF last_offset < b THEN <<Span(last_offset, b, FALSE)>> ELSE <<>>)
                 \o <<Span(b, b + w, TRUE)>> \o CharWalk(c, inside, i + 1, b + w)
            ELSE CharWalk(c, inside, i + 1, last_offset)

char_find_matches(c, inside) ==
    IF inside = <<>> THEN <<Span(0, 0, FALSE)>> ELSE CharWalk(c, inside, 1, 0)

\* impl Pattern for &str: every occurrence of that exact substring,
\* non-overlapping, left to right; the empty literal matches nothing
str_find_matches(s, inside) ==
    IF s = <<>> THEN <<Span(0, ByteLen(inside), FALSE)>>
    ELSE IF inside = <<>> THEN <<Span(0, 0, FALSE)>>
    ELSE LET MatchLen == [i \in 1 .. Len(inside) |->
                 IF i + Len(s) - 1 <= Len(inside) /\ SubSeq(inside, i, i + Len(s) - 1) = s
                 THEN Len(s) ELSE 0]
         IN Scan(MatchLen, inside, 1, 0)

\* compiled expression: the external matcher, here an expression matching
\* maximal runs of the characters of r.cls; r.valid = FALSE is an expression
\* the matcher cannot evaluate
RECURSIVE RunLen(_, _, _)
RunLen(cls, inside, i) ==
    IF i <= Len(inside) /\ inside[i] \in cls THEN 1 + RunLen(cls, inside, i + 1) ELSE 0

regex_find_matches(r, inside) ==
    IF inside = <<>> THEN <<Span(0, 0, FALSE)>>
    ELSE LET MatchLen == [i \in 1 .. Len(inside) |-> RunLen(r.cls, inside, i)]
         IN Scan(MatchLen, inside, 1, 0)

StrPattern(s) == [kind |-> "Str", s |-> s]
RegexPattern(cls, valid) == [kind |-> "Regex", cls |-> cls, valid |-> valid]

\* variant: only the first character of the literal is looked at
PyPattern_Str_path_first_only(s) == IF Len(s) >= 1 THEN "char" ELSE "str"

\* which matcher PyPattern::Str dispatches to:
\*   if let (Some(c), None) = (chars.next(), chars.next())
PyPattern_Str_path(s) == IF Len(s) >= 1 /\ ~(Len(s) >= 2) THEN "char" ELSE "str"

\* impl Pattern for PyPattern: Ok(spans) or Err
PyPattern_find_matches(p, inside) ==
    IF p.kind = "Str"
    THEN [ok |-> TRUE, path |-> PyPattern_Str_path(p.s),
          spans |-> IF PyPattern_Str_path(p.s) = "char"
                    THEN char_find_matches(p.s[1], inside)
                    ELSE str_find_matches(p.s, inside)]
    ELSE IF p.valid
         THEN [ok |-> TRUE, path |-> "regex", spans |-> regex_find_matches(p, inside)]
         ELSE [ok |-> FALSE, path |-> "regex", spans |-> <<>>]

(***************************************************************************)
(* Offset index, slice, replace, split                                     *)
(***************************************************************************)
None == <<>>
Some(x) == <<x>>

\* character positions (1-based) of s whose first byte lies in [b0, b1)
CharsIn(s, b0, b1) ==
    {i \in 1 .. Len(s) : ByteOffset(s, i - 1) >= b0 /\ ByteOffset(s, i - 1) < b1}

SetMin(S) == CHOOSE x \in S : \A y \in S : x <= y
SetMax(S) == CHOOSE x \in S : \A y \in S : x >= y

\* union (min start, max end) of the alignments at positions P
UnionRange(al, P) ==
    IF P = {} THEN <<0, 0>>
    ELSE <<SetMin({al[i][1] : i \in P}), SetMax({al[i][2] : i \in P})>>

\* char_to_bytes(s, start..end): walk the characters, skipping while
\* i < start and taking while i < end; 0..0 is the empty span at 0
RECURSIVE CharToBytesWalk(_, _, _, _, _)
CharToBytesWalk(s, start, end, i, acc) ==
    IF i >= Len(s) \/ i >= end THEN acc
    ELSE LET a1 == IF i = start THEN [acc EXCEPT !.start = Some(ByteOffset(s, i))] ELSE acc
             a2 == IF i = end - 1
                   THEN [a1 EXCEPT !.end = Some(ByteOffset(s, i + 1))] ELSE a1
         IN CharToBytesWalk(s, start, end, i + 1, a2)

char_to_bytes(s, start, end) ==
    LET init == IF start = 0 /\ end = 0
                THEN [start |-> Some(0), end |-> Some(0)]
                ELSE [start |-> None, end |-> None]
        r == CharToBytesWalk(s, start, end, Min(start, Len(s)), init)
    IN IF r.start = None \/ r.end = None THEN None
       ELSE Some(<<r.start[1], r.end[1]>>)

\* NormalizedString::slice(Range::Normalized(b0..b1)): an independent
\* instance for the sub-text, its original restricted to the union of the
\* covered alignments and its alignments re-based at zero
NS_slice(n, b0, b1) ==
    LET P == CharsIn(n.normalized, b0, b1)
        u == UnionRange(n.alignments, P)
        lo == IF P = {} THEN 1 ELSE SetMin(P)
        hi == IF P = {} THEN 0 ELSE SetMax(P)
        Q == CharsIn(n.original, u[1], u[2])
    IN IF b0 > b1 \/ b1 > ByteLen(n.normalized) THEN None
       ELSE Some([original |-> IF Q = {} THEN <<>>
                               ELSE SubSeq(n.original, SetMin(Q), SetMax(Q)),
                  normalized |-> SubSeq(n.normalized, lo, hi),
                  alignments |-> [k \in 1 .. (hi - lo + 1) |->
                                    <<n.alignments[lo + k - 1][1] - u[1],
                                      n.alignments[lo + k - 1][2] - u[1]>>]])

\* replace: every match span is substituted by content, each inserted
\* character carrying the union range of the matched span
RECURSIVE ReplaceSpans(_, _, _)
ReplaceSpans(n, spans, content) ==
    IF spans = <<>> THEN [normalized |-> <<>>, alignments |-> <<>>]
    ELSE LET sp == Head(spans)
             P == CharsIn(n.normalized, sp.s, sp.e)
             rest == ReplaceSpans(n, Tail(spans), content)
             lo == IF P = {} THEN 1 ELSE SetMin(P)
             hi == IF P = {} THEN 0 ELSE SetMax(P)
             u == UnionRange(n.alignments, P)
         IN IF sp.m
            THEN [normalized |-> content \o rest.normalized,
                  alignments |-> [k \in 1 .. Len(content) |-> u] \o rest.alignments]
            ELSE [normalized |-> SubSeq(n.normalized, lo, hi) \o rest.normalized,
                  alignments |-> SubSeq(n.alignments, lo, hi) \o rest.alignments]

\* NormalizedString::replace(pattern, content): Err leaves n as it was
NS_replace(n, p, content) ==
    LET fm == PyPattern_find_matches(p, n.normalized)
        r == ReplaceSpans(n, fm.spans, content)
    IN IF ~fm.ok THEN [ok |-> FALSE, n |-> n]
       ELSE [ok |-> TRUE,
             n |-> [n EXCEPT !.normalized = r.normalized, !.alignments = r.alignments]]

(***************************************************************************)
(* Split policy (SplitDelimiterBehavior)                                   *)
(***************************************************************************)
Behaviors == {"removed", "isolated", "merged_with_previous", "merged_with_next", "contiguous"}

Reverse(s) == [i \in 1 .. Len(s) |-> s[Len(s) + 1 - i]]

\* a match not preceded by a match is appended to the previous segment
RECURSIVE MergePrevious(_, _, _)
MergePrevious(spans, acc, previous_match) ==
    IF spans = <<>> THEN acc
    ELSE LET sp == Head(spans)
             k == Len(acc)
             acc2 == IF sp.m /\ ~previous_match /\ k > 0
                     THEN [acc EXCEPT ![k].e = sp.e]
                     ELSE Append(acc, Span(sp.s, sp.e, FALSE))
         IN MergePrevious(Tail(spans), acc2, sp.m)

\* the same walk from the right: a match is prepended to the next segment
RECURSIVE MergeNext(_, _, _)
MergeNext(rspans, acc, previous_match) ==
    IF rspans = <<>> THEN Reverse(acc)
    ELSE LET sp == Head(rspans)
             k == Len(acc)
             acc2 == IF sp.m /\ ~previous_match /\ k > 0
                     THEN [acc EXCEPT ![k].s = sp.s]
                     ELSE Append(acc, Span(sp.s, sp.e, FALSE))
         IN MergeNext(Tail(rspans), acc2, sp.m)

\* runs of spans with the same tag are coalesced
RECURSIVE MergeContiguous(_, _, _)
MergeContiguous(spans, acc, previous_match) ==
    IF spans = <<>> THEN acc
    ELSE LET sp == Head(spans)
             k == Len(acc)
             acc2 == IF sp.m = previous_match /\ k > 0
                     THEN [acc EXCEPT ![k].e = sp.e]
                     ELSE Append(acc, Span(sp.s, sp.e, FALSE))
         IN MergeContiguous(Tail(spans), acc2, sp.m)

\* the segments to emit; m = TRUE marks a segment to drop
Grouped(spans, behavior) ==
    CASE behavior = "removed" -> spans
      [] behavior = "isolated" -> [i \in 1 .. Len(spans) |-> Span(spans[i].s, spans[i].e, FALSE)]
      [] behavior = "merged_with_previous" -> MergePrevious(spans, <<>>, FALSE)
      [] behavior = "merged_with_next" -> MergeNext(Reverse(spans), <<>>, FALSE)
      [] behavior = "contiguous" -> MergeContiguous(spans, <<>>, FALSE)

RECURSIVE Emitted(_)
Emitted(g) ==
    IF g = <<>> THEN <<>>
    ELSE (IF ~Head(g).m /\ Head(g).s < Head(g).e THEN <<Head(g)>> ELSE <<>>)
         \o Emitted(Tail(g))

\* NormalizedString::split(pattern, behavior): the parent is only read
NS_split(n, p, behavior) ==
    LET fm == PyPattern_find_matches(p, n.normalized)
        segs == Emitted(Grouped(fm.spans, behavior))
    IN IF ~fm.ok THEN [ok |-> FALSE, parts |-> <<>>]
       ELSE [ok |-> TRUE,
             parts |-> [k \in 1 .. Len(segs) |-> NS_slice(n, segs[k].s, segs[k].e)[1]]]

(***************************************************************************)
(* PyRange                                                                 *)
(***************************************************************************)
Single(i) == [kind |-> "Single", i |-> i]
Range(s, e) == [kind |-> "Range", s |-> s, e |-> e]
\* a Python slice object; an endpoint or step is None or Some(integer)
Slice(start, stop, step) == [kind |-> "Slice", start |-> start, stop |-> stop, step |-> step]

\* results of to_range: Ok(start..end), Err(ValueError), or a panic
RangeOk(s, e) == [kind |-> "Ok", s |-> s, e |-> e]
RangeErr == [kind |-> "Err", s |-> 0, e |-> 0]
RangePanic == [kind |-> "Panic", s |-> 0, e |-> 0]

\* PySlice::indices(length): CPython's PySlice_Unpack followed by
\* PySlice_AdjustIndices; a zero step is a ValueError
AdjustIndex(x, length, step) ==
    IF x < 0
    THEN IF x + length < 0 THEN (IF step < 0 THEN 0 - 1 ELSE 0) ELSE x + length
    ELSE IF x >= length THEN (IF step < 0 THEN length - 1 ELSE length) ELSE x

PySlice_indices(sl, length) ==
    LET step == IF sl.step = None THEN 1 ELSE sl.step[1]
        start == IF sl.start = None
                 THEN (IF step < 0 THEN ISIZE_MAX ELSE 0) ELSE sl.start[1]
        stop == IF sl.stop = None
                THEN (IF step < 0 THEN ISIZE_MIN ELSE ISIZE_MAX) ELSE sl.stop[1]
    IN IF step = 0 THEN [ok |-> FALSE, start |-> 0, stop |-> 0, step |-> 0]
       ELSE [ok |-> TRUE, start |-> AdjustIndex(start, length, step),
             stop |-> AdjustIndex(stop, length, step), step |-> step]

\* PyRange::to_range(max_len).  The negation -i of the most negative isize
\* overflows: a build with overflow checks panics there, a build without
\* them wraps; overflow_checks selects the build.
to_range(r, max_len, overflow_checks) ==
    CASE r.kind = "Single" ->
           IF r.i < 0
           THEN IF r.i = ISIZE_MIN /\ overflow_checks THEN RangePanic
                ELSE LET neg == IF r.i = ISIZE_MIN THEN ISIZE_MIN ELSE 0 - r.i
                         i == AsUsize(neg)
                     IN IF i > max_len THEN RangeErr
                        ELSE RangeOk(max_len - i, max_len - i + 1)
           ELSE LET i == AsUsize(r.i) IN RangeOk(i, i + 1)
      [] r.kind = "Range" -> RangeOk(r.s, r.e)
      [] r.kind = "Slice" ->
           LET x == PySlice_indices(r, max_len)
           IN IF max_len > ISIZE_MAX \/ ~x.ok THEN RangeErr
              ELSE RangeOk(AsUsize(x.start), AsUsize(x.stop))

(***************************************************************************)
(* Host callbacks: a Python object given as func.  ret[c] is what calling  *)
(* it with the character c produces.                                       *)
(***************************************************************************)
PyBool(b) == [t |-> "bool", b |-> b, s |-> <<>>]
PyStr(s) == [t |-> "str", b |-> FALSE, s |-> s]
PyNone == [t |-> "none", b |-> FALSE, s |-> <<>>]
PyRaise == [t |-> "raise", b |-> FALSE, s |-> <<>>]

NotCallable == [callable |-> FALSE, ret |-> [c \in Alphabet |-> PyNone]]
IsNotSpace == [callable |-> TRUE, ret |-> [c \in Alphabet |-> PyBool(c # " ")]]
NoneOnUpper == [callable |-> TRUE,
                ret |-> [c \in Alphabet |-> IF c = "A" THEN PyNone ELSE PyBool(c # " ")]]
RaisesOnV == [callable |-> TRUE,
              ret |-> [c \in Alphabet |-> IF c = "V" THEN PyRaise ELSE PyBool(c # "a")]]
SpaceForA == [callable |-> TRUE,
              ret |-> [c \in Alphabet |-> PyStr(<<IF c = "a" THEN " " ELSE c>>)]]
TwoCharsForA == [callable |-> TRUE,
                 ret |-> [c \in Alphabet |->
                            IF c = "a" THEN PyStr(<<"G", "V">>) ELSE PyStr(<<c>>)]]
EmptyForSpace == [callable |-> TRUE,
                  ret |-> [c \in Alphabet |-> IF c = " " THEN PyStr(<<>>) ELSE PyStr(<<c>>)]]

Callbacks == {NotCallable, IsNotSpace, NoneOnUpper, RaisesOnV, SpaceForA,
              TwoCharsForA, EmptyForSpace}

(***************************************************************************)
(* Results of the wrappers: Ok / Err(err) / Panic, the NormalizedString    *)
(* after the call, and the returned value                                  *)
(***************************************************************************)
Ok(n, ret) == [kind |-> "Ok", err |-> "", n |-> n, ret |-> ret]
Err(e, n) == [kind |-> "Err", err |-> e, n |-> n, ret |-> None]
Panic(n) == [kind |-> "Panic", err |-> "", n |-> n, ret |-> None]

\* func.call1((c,)).expect(err).extract::<bool>().expect(err)
FilterCallOk(func, c) == func.ret[c].t = "bool"

\* variant: the text is filtered in place, so a call failing at position k
\* leaves the characters before k already filtered
filter_in_place(n, func) ==
    LET bad == {i \in 1 .. Len(n.normalized) : ~FilterCallOk(func, n.normalized[i])}
        k == IF bad = {} THEN Len(n.normalized) + 1 ELSE SetMin(bad)
        ks == KeptPositions(SubSeq(n.normalized, 1, k - 1), [c \in Alphabet |-> func.ret[c].b], 1)
              \o [j \in 1 .. (Len(n.normalized) - k + 1) |-> k + j - 1]
        m == [n EXCEPT !.normalized = [j \in 1 .. Len(ks) |-> n.normalized[ks[j]]],
                       !.alignments = [j \in 1 .. Len(ks) |-> n.alignments[ks[j]]]]
    IN IF ~func.callable THEN Err("TypeError", n)
       ELSE IF bad # {} THEN Panic(m) ELSE Ok(m, None)

\* fn filter: a callback that is not callable is a TypeError; a failing
\* call or a result that is not a bool panics inside normalized.filter,
\* before the text is rewritten
filter(n, func) ==
    IF ~func.callable THEN Err("TypeError", n)
    ELSE IF \E i \in 1 .. Len(n.normalized) : ~FilterCallOk(func, n.normalized[i])
         THEN Panic(n)
         ELSE Ok(NS_filter(n, [c \in Alphabet |-> func.ret[c].b]), None)

\* fn for_each: only the call itself is checked
for_each(n, func) ==
    IF ~func.callable THEN Err("TypeError", n)
    ELSE IF \E i \in 1 .. Len(n.normalized) : func.ret[n.normalized[i]].t = "raise"
         THEN Panic(n)
         ELSE Ok(n, None)

\* let c: String = func.call1(..).expect(err).extract().expect(err);
\* c.chars().next().expect(err)
MapCallOk(func, c) == func.ret[c].t = "str" /\ Len(func.ret[c].s) >= 1

MapCallChar(func, c) == IF MapCallOk(func, c) THEN func.ret[c].s[1] ELSE c

\* variant: the whole returned string is written into the text
map_whole_string(n, func) ==
    LET Whole == [c \in Alphabet |-> func.ret[c].s]
    IN IF ~func.callable THEN Err("TypeError", n)
       ELSE IF \E i \in 1 .. Len(n.normalized) : ~MapCallOk(func, n.normalized[i])
            THEN Panic(n)
            ELSE Ok([n EXCEPT !.normalized = FlatMap(Whole, n.normalized)], None)

\* fn map
map(n, func) ==
    IF ~func.callable THEN Err("TypeError", n)
    ELSE IF \E i \in 1 .. Len(n.normalized) : ~MapCallOk(func, n.normalized[i])
         THEN Panic(n)
         ELSE Ok(NS_map(n, [c \in Alphabet |-> MapCallChar(func, c)]), None)

\* variant: a range without a byte span is reported as an error
slice_none_is_error(n, range, oc) ==
    LET r == to_range(range, Len(n.normalized), oc)
        bytes == char_to_bytes(n.normalized, r.s, r.e)
    IN CASE r.kind = "Panic" -> Panic(n)
         [] r.kind = "Err" -> Err("ValueError", n)
         [] OTHER -> IF bytes = None THEN Err("ValueError", n)
                     ELSE Ok(n, NS_slice(n, bytes[1][1], bytes[1][2]))

\* fn slice: Ok(None) when char_to_bytes finds no byte span
slice(n, range, oc) ==
    LET r == to_range(range, Len(n.normalized), oc)
        bytes == char_to_bytes(n.normalized, r.s, r.e)
    IN CASE r.kind = "Panic" -> Panic(n)
         [] r.kind = "Err" -> Err("ValueError", n)
         [] OTHER -> IF bytes = None THEN Ok(n, None)
                     ELSE Ok(n, NS_slice(n, bytes[1][1], bytes[1][2]))

\* PyNormalizedString::split / replace: ToPyResult(..).into_py()
split(n, p, behavior) ==
    LET r == NS_split(n, p, behavior)
    IN IF r.ok THEN Ok(n, r.parts) ELSE Err("Exception", n)

replace(n, p, content) ==
    LET r == NS_replace(n, p, content)
    IN IF r.ok THEN Ok(r.n, None) ELSE Err("Exception", r.n)

(***************************************************************************)
(* State                                                                   *)
(***************************************************************************)
VARIABLES
    ns,       \* the NormalizedString: [original, normalized, alignments]
    cells,    \* RefMutContainer cells: cells[c] = TRUE while the pointer is held
    handles,  \* PyNormalizedStringRefMut objects: handles[h] = [cell, scope], the
              \* cell handle h refers to and the scope (call of new) it stems from
    last      \* the last call: operation, receiver, argument, outcome, result

vars == <<ns, cells, handles, last>>

NoCall == [op |-> "init", via |-> 0, kind |-> "Ok", err |-> "", arg |-> None, ret |-> None]

\* the operations forwarded to the NormalizedString
Methods == {"get_normalized", "get_original", "nfd", "nfkd", "nfc", "nfkc", "lowercase",
            "uppercase", "prepend", "append", "lstrip", "rstrip", "strip", "clear",
            "slice", "__getitem__", "filter", "for_each", "map", "split", "replace"}

\* no handle currently lends the instance out
NoLive == \A c \in 1 .. Len(cells) : ~cells[c]

\* one call: the instance becomes res.n and the outcome is recorded
Call(op, via, arg, res) ==
    /\ Len(res.n.normalized) <= MaxLen
    /\ ns' = res.n
    /\ last' = [op |-> op, via |-> via, kind |-> res.kind, err |-> res.err,
                arg |-> arg, ret |-> res.ret]
    /\ UNCHANGED <<cells, handles>>

(***************************************************************************)
(* PyNormalizedString methods.  A is the record of the sets the arguments  *)
(* are drawn from.                                                         *)
(***************************************************************************)
Direct(op, arg, res) == NoLive /\ Call(op, 0, arg, res)

PyNormalizedString_get_normalized == Direct("get_normalized", None, Ok(ns, Some(ns.normalized)))
PyNormalizedString_get_original == Direct("get_original", None, Ok(ns, Some(ns.original)))
PyNormalizedString_nfd == Direct("nfd", None, Ok(NS_nfd(ns), None))
PyNormalizedString_nfkd == Direct("nfkd", None, Ok(NS_nfkd(ns), None))
PyNormalizedString_nfc == Direct("nfc", None, Ok(NS_nfc(ns), None))
PyNormalizedString_nfkc == Direct("nfkc", None, Ok(NS_nfkc(ns), None))
PyNormalizedString_lowercase == Direct("lowercase", None, Ok(NS_lowercase(ns), None))
PyNormalizedString_uppercase == Direct("uppercase", None, Ok(NS_uppercase(ns), None))
PyNormalizedString_prepend(A) ==
    \E s \in A.inserts : Direct("prepend", s, Ok(NS_prepend(ns, s), None))
PyNormalizedString_append(A) ==
    \E s \in A.inserts : Direct("append", s, Ok(NS_append(ns, s), None))
PyNormalizedString_lstrip == Direct("lstrip", None, Ok(NS_lstrip(ns), None))
PyNormalizedString_rstrip == Direct("rstrip", None, Ok(NS_rstrip(ns), None))
PyNormalizedString_strip == Direct("strip", None, Ok(NS_strip(ns), None))
PyNormalizedString_clear == Direct("clear", None, Ok(NS_clear(ns), None))
PyNormalizedString_slice(A) ==
    \E r \in A.ranges, oc \in BOOLEAN : Direct("slice", r, slice(ns, r, oc))
PyNormalizedString_getitem(A) ==
    \E r \in A.ranges, oc \in BOOLEAN : Direct("__getitem__", r, slice(ns, r, oc))
PyNormalizedString_filter(A) ==
    \E f \in A.callbacks : Direct("filter", f, filter(ns, f))
PyNormalizedString_for_each(A) ==
    \E f \in A.callbacks : Direct("for_each", f, for_each(ns, f))
PyNormalizedString_map(A) ==
    \E f \in A.callbacks : Direct("map", f, map(ns, f))
PyNormalizedString_split(A) ==
    \E p \in A.patterns, b \in A.behaviors : Direct("split", <<p, b>>, split(ns, p, b))
PyNormalizedString_replace(A) ==
    \E p \in A.patterns, c \in A.contents : Direct("replace", <<p, c>>, replace(ns, p, c))

(***************************************************************************)
(* PyNormalizedStringRefMut: the scoped mutable handle                     *)
(***************************************************************************)
Handles == 1 .. Len(handles)

Live(h) == cells[handles[h].cell]

\* RefMutContainer::map / map_mut: f runs on the instance while the cell
\* still holds the pointer, otherwise nothing runs
RefMutContainer_map(h, res) == IF Live(h) THEN Some(res) ELSE None

\* PyNormalizedStringRefMut::destroyed_error()
destroyed_error(n) == Err("destroyed_error", n)

\* variant: a call on a destroyed handle is dropped silently
ok_or_else_nothing(opt, n) == IF opt = None THEN Ok(n, None) ELSE opt[1]

\* .ok_or_else(PyNormalizedStringRefMut::destroyed_error)
ok_or_else_destroyed(opt, n) == IF opt = None THEN destroyed_error(n) ELSE opt[1]

ViaHandle(op, h, arg, res) ==
    Call(op, h, arg, ok_or_else_destroyed(RefMutContainer_map(h, res), ns))

\* PyNormalizedStringRefMut::new: a fresh cell holding the pointer, wrapped
\* in the guard's handle; the instance is borrowed exclusively
PyNormalizedStringRefMut_new ==
    /\ NoLive
    /\ Len(handles) < MaxHandles
    /\ cells' = Append(cells, TRUE)
    /\ handles' = Append(handles, [cell |-> Len(cells) + 1, scope |-> Len(cells) + 1])
    /\ last' = [NoCall EXCEPT !.op = "new", !.via = Len(handles) + 1]
    /\ UNCHANGED ns

\* variant: the copy gets a cell of its own holding the same pointer
PyNormalizedStringRefMut_clone_deep ==
    \E h \in Handles :
        /\ Len(handles) < MaxHandles
        /\ cells' = Append(cells, Live(h))
        /\ handles' = Append(handles, [cell |-> Len(cells) + 1, scope |-> handles[h].scope])
        /\ last' = [NoCall EXCEPT !.op = "clone", !.via = h]
        /\ UNCHANGED ns

\* #[derive(Clone)]: the copy refers to the cell of the handle it was
\* copied from
PyNormalizedStringRefMut_clone ==
    \E h \in Handles :
        /\ Len(handles) < MaxHandles
        /\ handles' = Append(handles, handles[h])
        /\ last' = [NoCall EXCEPT !.op = "clone", !.via = h]
        /\ UNCHANGED <<ns, cells>>

\* DestroyPtr::destroy: the cell gives up the pointer
PyNormalizedStringRefMut_destroy ==
    \E h \in Handles :
        /\ cells' = [cells EXCEPT ![handles[h].cell] = FALSE]
        /\ last' = [NoCall EXCEPT !.op = "destroy", !.via = h]
        /\ UNCHANGED <<ns, handles>>

RefMut_get_normalized ==
    \E h \in Handles : ViaHandle("get_normalized", h, None, Ok(ns, Some(ns.normalized)))
RefMut_get_original ==
    \E h \in Handles : ViaHandle("get_original", h, None, Ok(ns, Some(ns.original)))
RefMut_nfd == \E h \in Handles : ViaHandle("nfd", h, None, Ok(NS_nfd(ns), None))
RefMut_nfkd == \E h \in Handles : ViaHandle("nfkd", h, None, Ok(NS_nfkd(ns), None))
RefMut_nfc == \E h \in Handles : ViaHandle("nfc", h, None, Ok(NS_nfc(ns), None))
RefMut_nfkc == \E h \in Handles : ViaHandle("nfkc", h, None, Ok(NS_nfkc(ns), None))
RefMut_lowercase == \E h \in Handles : ViaHandle("lowercase", h, None, Ok(NS_lowercase(ns), None))
RefMut_uppercase == \E h \in Handles : ViaHandle("uppercase", h, None, Ok(NS_uppercase(ns), None))
RefMut_prepend(A) ==
    \E h \in Handles, s \in A.inserts : ViaHandle("prepend", h, s, Ok(NS_prepend(ns, s), None))
RefMut_append(A) ==
    \E h \in Handles, s \in A.inserts : ViaHandle("append", h, s, Ok(NS_append(ns, s), None))
RefMut_lstrip == \E h \in Handles : ViaHandle("lstrip", h, None, Ok(NS_lstrip(ns), None))
RefMut_rstrip == \E h \in Handles : ViaHandle("rstrip", h, None, Ok(NS_rstrip(ns), None))
RefMut_strip == \E h \in Handles : ViaHandle("strip", h, None, Ok(NS_strip(ns), None))
RefMut_clear == \E h \in Handles : ViaHandle("clear", h, None, Ok(NS_clear(ns), None))
RefMut_slice(A) ==
    \E h \in Handles, r \in A.ranges, oc \in BOOLEAN :
        ViaHandle("slice", h, r, slice(ns, r, oc))
RefMut_filter(A) ==
    \E h \in Handles, f \in A.callbacks : ViaHandle("filter", h, f, filter(ns, f))
RefMut_for_each(A) ==
    \E h \in Handles, f \in A.callbacks : ViaHandle("for_each", h, f, for_each(ns, f))
RefMut_map(A) ==
    \E h \in Handles, f \in A.callbacks : ViaHandle("map", h, f, map(ns, f))
RefMut_split(A) ==
    \E h \in Handles, p \in A.patterns, b \in A.behaviors :
        ViaHandle("split", h, <<p, b>>, split(ns, p, b))
RefMut_replace(A) ==
    \E h \in Handles, p \in A.patterns, c \in A.contents :
        ViaHandle("replace", h, <<p, c>>, replace(ns, p, c))

(***************************************************************************)
(* Spec: a PyNormalizedString and the calls made on it                     *)
(***************************************************************************)
SeedTexts == {<<"a", " ">>, <<" ", "GA", "A">>}

DirectArgs ==
    [inserts |-> {<<" ">>},
     callbacks |-> Callbacks,
     patterns |-> {StrPattern(<<"a">>), StrPattern(<<"G", "V">>),
                   RegexPattern({" "}, TRUE), RegexPattern({"a"}, FALSE)},
     contents |-> {<<>>, <<" ">>},
     behaviors |-> Behaviors,
     ranges |-> {Single(-1), Single(ISIZE_MIN), Range(3, 4), Slice(Some(0), Some(2), Some(0))}]

Init ==
    /\ ns \in {NormalizedString_from(s) : s \in SeedTexts}
    /\ cells = <<>>
    /\ handles = <<>>
    /\ last = NoCall

Next ==
    \/ PyNormalizedString_get_normalized
    \/ PyNormalizedString_get_original
    \/ PyNormalizedString_nfd
    \/ PyNormalizedString_nfkd
    \/ PyNormalizedString_nfc
    \/ PyNormalizedString_nfkc
    \/ PyNormalizedString_lowercase
    \/ PyNormalizedString_uppercase
    \/ PyNormalizedString_prepend(DirectArgs)
    \/ PyNormalizedString_append(DirectArgs)
    \/ PyNormalizedString_lstrip
    \/ PyNormalizedString_rstrip
    \/ PyNormalizedString_strip
    \/ PyNormalizedString_clear
    \/ PyNormalizedString_slice(DirectArgs)
    \/ PyNormalizedString_getitem(DirectArgs)
    \/ PyNormalizedString_filter(DirectArgs)
    \/ PyNormalizedString_for_each(DirectArgs)
    \/ PyNormalizedString_map(DirectArgs)
    \/ PyNormalizedString_split(DirectArgs)
    \/ PyNormalizedString_replace(DirectArgs)

Spec == Init /\ [][Next]_vars

(***************************************************************************)
(* SpecScoped: the instance lent out through scoped handles, with the      *)
(* direct calls made between two scopes                                    *)
(***************************************************************************)
ScopedArgs ==
    [inserts |-> {<<" ">>},
     callbacks |-> {NotCallable, IsNotSpace, TwoCharsForA},
     patterns |-> {StrPattern(<<"a">>), RegexPattern({"a"}, FALSE)},
     contents |-> {<<"G", "V">>},
     behaviors |-> {"isolated"},
     ranges |-> {Single(-1), Single(ISIZE_MIN)}]

InitScoped ==
    /\ ns = NormalizedString_from(<<"GA", "a">>)
    /\ cells = <<>>
    /\ handles = <<>>
    /\ last = NoCall

NextScoped ==
    \/ PyNormalizedStringRefMut_new
    \/ PyNormalizedStringRefMut_clone
    \/ PyNormalizedStringRefMut_destroy
    \/ RefMut_get_normalized
    \/ RefMut_get_original
    \/ RefMut_nfd
    \/ RefMut_nfkd
    \/ RefMut_nfc
    \/ RefMut_nfkc
    \/ RefMut_lowercase
    \/ RefMut_uppercase
    \/ RefMut_prepend(ScopedArgs)
    \/ RefMut_append(ScopedArgs)
    \/ RefMut_lstrip
    \/ RefMut_rstrip
    \/ RefMut_strip
    \/ RefMut_clear
    \/ RefMut_slice(ScopedArgs)
    \/ RefMut_filter(ScopedArgs)
    \/ RefMut_for_each(ScopedArgs)
    \/ RefMut_map(ScopedArgs)
    \/ RefMut_split(ScopedArgs)
    \/ RefMut_replace(ScopedArgs)
    \/ PyNormalizedString_nfd
    \/ PyNormalizedString_nfkd
    \/ PyNormalizedString_nfc
    \/ PyNormalizedString_nfkc
    \/ PyNormalizedString_lowercase
    \/ PyNormalizedString_uppercase
    \/ PyNormalizedString_prepend(ScopedArgs)
    \/ PyNormalizedString_append(ScopedArgs)
    \/ PyNormalizedString_lstrip
    \/ PyNormalizedString_rstrip
    \/ PyNormalizedString_strip
    \/ PyNormalizedString_clear
    \/ PyNormalizedString_filter(ScopedArgs)
    \/ PyNormalizedString_map(ScopedArgs)
    \/ PyNormalizedString_replace(ScopedArgs)

SpecScoped == InitScoped /\ [][NextScoped]_vars

(***************************************************************************)
(* SpecFn: the range resolver, slice and the pattern dispatch applied to   *)
(* every text over a one-byte and a three-byte character                   *)
(***************************************************************************)
OptIdx == {None} \cup {Some(x) : x \in (0 - MaxIdx) .. MaxIdx}
Steps == {None, Some(-1), Some(0), Some(1), Some(2)}

AllRanges ==
    {Single(i) : i \in ISize}
    \cup {Range(s, e) : s \in 0 .. MaxIdx, e \in 0 .. MaxIdx}
    \cup {Slice(a, b, st) : a \in OptIdx, b \in OptIdx, st \in Steps}

FnArgs ==
    [ranges |-> AllRanges,
     patterns |-> {StrPattern(l) : l \in SeqsUpTo({"a", "GA"}, 2)}
                  \cup {RegexPattern({"a"}, TRUE), RegexPattern({"a"}, FALSE)}]

\* PyRange::to_range(max_len) against the length of the text
PyRange_to_range(A) ==
    \E r \in A.ranges, oc \in BOOLEAN :
        LET x == to_range(r, Len(ns.normalized), oc)
        IN Direct("to_range", r,
                  [kind |-> x.kind, err |-> IF x.kind = "Err" THEN "ValueError" ELSE "",
                   n |-> ns, ret |-> IF x.kind = "Ok" THEN <<x.s, x.e>> ELSE None])

\* PyPattern::find_matches(inside) on the normalized text
PyPattern_find_matches_call(A) ==
    \E p \in A.patterns :
        LET x == PyPattern_find_matches(p, ns.normalized)
        IN Direct("find_matches", p,
                  IF x.ok THEN Ok(ns, [path |-> x.path, spans |-> x.spans])
                  ELSE Err("Exception", ns))

InitFn ==
    /\ ns \in {NormalizedString_from(s) : s \in SeqsUpTo({"a", "GA"}, MaxLen)}
    /\ cells = <<>>
    /\ handles = <<>>
    /\ last = NoCall

\* the functions leave the text as it is, so one call per text shows all
\* they do
FirstCall == last = NoCall

NextFn ==
    \/ FirstCall /\ PyRange_to_range(FnArgs)
    \/ FirstCall /\ PyNormalizedString_slice(FnArgs)
    \/ FirstCall /\ PyNormalizedString_getitem(FnArgs)
    \/ FirstCall /\ PyPattern_find_matches_call(FnArgs)

SpecFn == InitFn /\ [][NextFn]_vars

(***************************************************************************)
(* Properties                                                              *)
(***************************************************************************)
Abs(i) == IF i < 0 THEN 0 - i ELSE i

\* an endpoint of a clamped slice against n characters
Clamp(x, n) == IF x < 0 THEN Max(0, x + n) ELSE Min(x, n)

SliceCalls == {"slice", "__getitem__"}

\* C1: every operation called through a handle after the handle was
\* destroyed fails with the destroyed-handle error and leaves original,
\* normalized and alignments as they were.
C1_ExpiredHandleFails ==
    [][(last'.op \in Methods /\ last'.via \in Handles /\ ~Live(last'.via))
        => (last'.kind = "Err" /\ last'.err = "destroyed_error" /\ ns' = ns)]_vars

\* a mutation was attempted through a destroyed handle
C1_Witness ==
    /\ last.op = "replace"
    /\ last.via \in Handles
    /\ ~Live(last.via)
    /\ last.err = "destroyed_error"
    /\ ns.normalized # <<>>

\* C2: in every reachable state there is one alignment entry per character
\* of the normalized text.
C2_AlignmentPerChar == Len(ns.alignments) = Len(ns.normalized)

\* a call through a valid handle changed the number of characters
C2_Witness ==
    /\ last.op = "nfd"
    /\ last.via \in Handles
    /\ last.kind = "Ok"
    /\ Len(ns.normalized) > Len(ns.original)

\* C3: when filter, map, for_each, split, replace or slice does not end in
\* Ok, the NormalizedString is what it was before the call.
C3_FailureLeavesStateUntouched ==
    [][(last'.op \in {"filter", "map", "for_each", "split", "replace"} \cup SliceCalls
        /\ last'.kind # "Ok") => ns' = ns]_vars

\* filter failed on the character in the middle of a three-character text
C3_Witness ==
    /\ last.op = "filter"
    /\ last.kind # "Ok"
    /\ last.arg.callable
    /\ Len(ns.normalized) = 3
    /\ FilterCallOk(last.arg, ns.normalized[1])
    /\ ~FilterCallOk(last.arg, ns.normalized[2])

\* C4: map fails, the text untouched, whenever the transform returns for
\* some character a string of zero or of several characters; no such
\* result is cut down to one character and written into the text.
C4_MapRejectsWrongLength ==
    [][(/\ last'.op = "map"
        /\ last'.arg.callable
        /\ \E i \in 1 .. Len(ns.normalized) :
              /\ last'.arg.ret[ns.normalized[i]].t = "str"
              /\ Len(last'.arg.ret[ns.normalized[i]].s) # 1)
        => (last'.kind # "Ok" /\ ns' = ns)]_vars

\* calling func on some character of text fails for the operation op
CallbackFails(op, func, text) ==
    \/ ~func.callable
    \/ \E i \in 1 .. Len(text) :
          \/ func.ret[text[i]].t = "raise"
          \/ op = "filter" /\ func.ret[text[i]].t # "bool"
          \/ op = "map" /\ func.ret[text[i]].t # "str"

\* C5: filter, map and for_each return the callback error as a failure
\* value when the callback is not callable and when a call of it fails or
\* returns a value of the wrong type.
C5_CallbackErrorReturned ==
    [][(last'.op \in {"filter", "map", "for_each"}
        /\ CallbackFails(last'.op, last'.arg, ns.normalized))
        => (last'.kind = "Err" /\ last'.err = "TypeError")]_vars

\* C6: Single(i).to_range(n) is [n-|i|, n-|i|+1) for i < 0 with |i| <= n,
\* an error for i < 0 with |i| > n, and [i, i+1) for i >= 0; slicing a
\* non-empty text at Single(-1) yields its last character.
C6_SingleResolves ==
    LET n == Len(ns.normalized)
    IN /\ (last.op = "to_range" /\ last.arg.kind = "Single") =>
             IF last.arg.i < 0
             THEN IF Abs(last.arg.i) <= n
                  THEN last.kind = "Ok"
                       /\ last.ret = <<n - Abs(last.arg.i), n - Abs(last.arg.i) + 1>>
                  ELSE last.kind = "Err"
             ELSE last.kind = "Ok" /\ last.ret = <<last.arg.i, last.arg.i + 1>>
       /\ (last.op \in SliceCalls /\ last.arg.kind = "Single" /\ last.arg.i = 0 - 1 /\ n > 0) =>
             /\ last.kind = "Ok"
             /\ last.ret # None
             /\ last.ret[1].normalized = <<ns.normalized[n]>>

\* the range has the shape the data model allows: a slice has step 1
StructurallyValid(r) == r.kind = "Slice" => r.step \in {None, Some(1)}

\* a negative single index whose magnitude exceeds n
NegativeBeyond(r, n) == r.kind = "Single" /\ r.i < 0 /\ Abs(r.i) > n

\* the characters [s, e) are not a part of a text of n characters
OutsideText(s, e, n) == ~(s < e /\ e <= n) /\ ~(s = 0 /\ e = 0)

\* the range selects no span of a text of n characters
NoSpan(r, n) ==
    CASE r.kind = "Single" -> r.i >= n
      [] r.kind = "Range" -> OutsideText(r.s, r.e, n)
      [] r.kind = "Slice" ->
           OutsideText(IF r.start = None THEN 0 ELSE Clamp(r.start[1], n),
                       IF r.stop = None THEN n ELSE Clamp(r.stop[1], n), n)

\* C7: slice and __getitem__ leave the instance unchanged; with a
\* structurally valid range they fail only for a negative single index
\* beyond the text, and return no value when the range has no span.
C7_NoSpanIsNoValue ==
    [][last'.op \in SliceCalls =>
        LET r == last'.arg
            n == Len(ns.normalized)
        IN /\ ns' = ns
           /\ (StructurallyValid(r) /\ last'.kind # "Ok") => NegativeBeyond(r, n)
           /\ (StructurallyValid(r) /\ NoSpan(r, n) /\ ~NegativeBeyond(r, n))
                 => (last'.kind = "Ok" /\ last'.ret = None)]_vars

\* a non-negative single index at or past the end gave no value
C7_Witness ==
    /\ last.op = "__getitem__"
    /\ last.arg.kind = "Single"
    /\ last.arg.i >= Len(ns.normalized)
    /\ last.kind = "Ok"
    /\ last.ret = None
    /\ ns.normalized # <<>>

\* C8: Slice.to_range(n) resolves a slice of step 1 to its clamped
\* endpoints, both within [0, n], and does not resolve a slice of another
\* step.
C8_SliceClamped ==
    LET n == Len(ns.normalized)
        r == last.arg
    IN (last.op = "to_range" /\ r.kind = "Slice") =>
          IF r.step \in {None, Some(1)}
          THEN /\ last.kind = "Ok"
               /\ last.ret = <<IF r.start = None THEN 0 ELSE Clamp(r.start[1], n),
                               IF r.stop = None THEN n ELSE Clamp(r.stop[1], n)>>
               /\ last.ret[1] \in 0 .. n
               /\ last.ret[2] \in 0 .. n
          ELSE last.kind # "Ok"

\* C9: a literal goes to the single-character matcher exactly when it has
\* one character, and the spans returned are those of the literal matcher;
\* for a one-character literal both matchers return the same spans.
C9_DispatchEquivalent ==
    (last.op = "find_matches" /\ last.arg.kind = "Str") =>
        /\ last.kind = "Ok"
        /\ (last.ret.path = "char") <=> (Len(last.arg.s) = 1)
        /\ (last.ret.path = "str") <=> (Len(last.arg.s) # 1)
        /\ last.ret.spans = str_find_matches(last.arg.s, ns.normalized)
        /\ Len(last.arg.s) = 1 =>
              char_find_matches(last.arg.s[1], ns.normalized)
                = str_find_matches(last.arg.s, ns.normalized)

\* a one-character literal of three bytes was matched twice in a text
C9_Witness ==
    /\ last.op = "find_matches"
    /\ last.arg.kind = "Str"
    /\ last.arg.s = <<"GA">>
    /\ last.ret.path = "char"
    /\ Cardinality({k \in 1 .. Len(last.ret.spans) : last.ret.spans[k].m}) = 2
    /\ \E k \in 1 .. Len(last.ret.spans) : ~last.ret.spans[k].m

\* C10: a destroyed handle stays destroyed; destroying a handle destroys
\* every handle of its scope, the copies included; and every later call
\* through any of them fails with the destroyed-handle error.
C10_InvalidationSharedPermanent ==
    [][/\ \A h \in Handles : ~Live(h) => ~cells'[handles'[h].cell]
       /\ last'.op = "destroy" =>
             \A g \in Handles :
                handles[g].scope = handles[last'.via].scope => ~cells'[handles'[g].cell]
       /\ (last'.op \in Methods /\ last'.via \in Handles
           /\ \E g \in Handles : handles[g].scope = handles[last'.via].scope /\ ~Live(g))
             => last'.err = "destroyed_error"]_vars

\* a copy taken while the handle was valid is called after the destroy
C10_Witness ==
    /\ Len(handles) >= 2
    /\ handles[2].scope = handles[1].scope
    /\ last.op \in Methods
    /\ last.via = 2
    /\ last.err = "destroyed_error"

====
